---------------------------- MODULE Spec2Model ----------------------------
(***************************************************************************)
(* create_pdf of src/utils/pdf_utils.py: the Markdown-to-PDF renderer.     *)
(*                                                                         *)
(* A line of Markdown is a tuple of one-character strings.  Lengths are    *)
(* in tenths of a point, so that 80% of the content width (403.2pt) is an  *)
(* integer.  The page cursor, the line index, the image flag, the output   *)
(* buffer and the primitives placed on the canvas are the state; one       *)
(* action is one branch of the line loop (one block), one image of the     *)
(* trailing gallery, or one of the steps before and after the loop.        *)
(***************************************************************************)
EXTENDS Integers, Sequences, FiniteSets, TLC

\* ------------------------------------------------------------------ bounds
\* Longest Markdown input, in lines, of a call with images.
MaxLines == 2
\* Longest Markdown input, in lines, of a call without images.
MaxTextLines == 4
\* Longest chart_images list.
MaxCharts == 2
\* Most columns, and most data rows, of the tables of the table inputs.
MaxCols == 8
MaxRows == 3
\* Longest input, in lines, of a call on paragraph text.
MaxParagraphs == 3
\* Longest input, in lines, of the calls that are repeated, and the number
\* of calls with the same arguments.
MaxRepeatLines == 2
MaxCalls == 2
\* Most blank lines at the head of an input that starts with blank lines.
MaxBlankLines == 80

\* --------------------------------------------------------------- constants
\* reportlab.lib.units.inch (72pt), in tenths of a point.
inch == 720
\* reportlab.lib.pagesizes.letter = (612pt, 792pt).
width == 6120
height == 7920

\* n points, in tenths of a point.
P(n) == n * 10

margin_left == (3 * inch) \div 4
margin_right == width - (3 * inch) \div 4
max_width == margin_right - margin_left

\* height - 1 * inch: where new_page and the start of the run put the cursor.
PageTop == height - 1 * inch

FONT_SIZES(k) ==
    CASE k = "h1" -> P(22) [] k = "h2" -> P(18) [] k = "h3" -> P(15)
      [] k = "h4" -> P(13) [] k = "body" -> P(11) [] k = "small" -> P(9)

LINE_HEIGHTS(k) ==
    CASE k = "h1" -> P(28) [] k = "h2" -> P(24) [] k = "h3" -> P(20)
      [] k = "h4" -> P(18) [] k = "body" -> P(15)

level_map(level) ==
    CASE level = 1 -> "h1" [] level = 2 -> "h2" [] level = 3 -> "h3"
      [] OTHER -> "h4"

\* ------------------------------------------------------------ str helpers
Whitespace == {" ", "\t"}
Digits == {"0", "1", "2", "3", "4", "5", "6", "7", "8", "9"}

RECURSIVE LStrip(_)
LStrip(s) ==
    IF s = <<>> THEN <<>>
    ELSE IF Head(s) \in Whitespace THEN LStrip(Tail(s)) ELSE s

RECURSIVE RStrip(_)
RStrip(s) ==
    IF s = <<>> THEN <<>>
    ELSE IF s[Len(s)] \in Whitespace THEN RStrip(SubSeq(s, 1, Len(s) - 1))
         ELSE s

\* str.strip()
Strip(s) == RStrip(LStrip(s))

\* ch in s
Contains(s, ch) == \E k \in 1..Len(s) : s[k] = ch

\* s.startswith(p)
StartsWith(s, p) == Len(s) >= Len(p) /\ SubSeq(s, 1, Len(p)) = p

\* s.split(sep): the fields between the separators, empty fields included.
RECURSIVE SplitFrom(_, _, _)
SplitFrom(s, sep, cur) ==
    IF s = <<>> THEN <<cur>>
    ELSE IF Head(s) = sep THEN <<cur>> \o SplitFrom(Tail(s), sep, <<>>)
         ELSE SplitFrom(Tail(s), sep, Append(cur, Head(s)))

Split(s, sep) == SplitFrom(s, sep, <<>>)

\* [x for x in seq if x]
RECURSIVE NonEmpty(_)
NonEmpty(seq) ==
    IF seq = <<>> THEN <<>>
    ELSE IF Head(seq) = <<>> THEN NonEmpty(Tail(seq))
         ELSE <<Head(seq)>> \o NonEmpty(Tail(seq))

\* [cell.strip() for cell in line.split("|")] followed by [c for c in cells if c]
Cells(line) ==
    LET fields == Split(line, "|")
    IN  NonEmpty([k \in 1..Len(fields) |-> Strip(fields[k])])

\* re.match(r"^\|?[\s\-:|]+\|?[\s\-:|]*$", s): "|" is itself in the class, so
\* the pattern matches exactly the non-empty strings over the class.
SeparatorClass == Whitespace \cup {"-", ":", "|"}
IsSeparator(s) == s # <<>> /\ \A k \in 1..Len(s) : s[k] \in SeparatorClass

\* Number of leading digits of s.
RECURSIVE LeadingDigits(_)
LeadingDigits(s) ==
    IF s = <<>> \/ Head(s) \notin Digits THEN 0 ELSE 1 + LeadingDigits(Tail(s))

\* re.match(r"^\d+\.\s", s)
IsNumbered(s) ==
    LET d == LeadingDigits(s)
    IN  d >= 1 /\ Len(s) >= d + 2 /\ s[d + 1] = "." /\ s[d + 2] \in Whitespace

\* re.match(r"^(\d+)\.\s(.+)$", s): the same, with one more character at least.
NumberedMatch(s) == IsNumbered(s) /\ Len(s) >= LeadingDigits(s) + 3


\* re.sub(r"\[.*?W.*?\]", "", s) for a literal word W: from the leftmost "["
\* that is followed by W and then by "]", up to the first "]" after the
\* first W, is removed; the scan goes on after the removed text.
RECURSIVE FindFrom(_, _, _)
FindFrom(s, p, k) ==
    IF k + Len(p) - 1 > Len(s) THEN 0
    ELSE IF SubSeq(s, k, k + Len(p) - 1) = p THEN k ELSE FindFrom(s, p, k + 1)

RECURSIVE SubBracketed(_, _)
SubBracketed(s, word) ==
    IF s = <<>> THEN <<>>
    ELSE LET w == IF Head(s) = "[" THEN FindFrom(s, word, 2) ELSE 0
             q == IF w = 0 THEN 0 ELSE FindFrom(s, <<"]">>, w + Len(word))
         IN  IF q = 0 THEN <<Head(s)>> \o SubBracketed(Tail(s), word)
             ELSE SubBracketed(SubSeq(s, q + 1, Len(s)), word)

\* ------------------------------------------------------ inline formatting
\* The backtick character, written as a word.
Backtick == "backtick"

\* Line 595, re.sub of the pattern backtick (.+?) backtick by group 1: a
\* backtick, one character at least, and the first backtick after it; the
\* two backticks are dropped.
RECURSIVE StripCode(_)
StripCode(s) ==
    IF s = <<>> THEN <<>>
    ELSE LET q == IF Head(s) = Backtick THEN FindFrom(s, <<Backtick>>, 3) ELSE 0
         IN  IF q = 0 THEN <<Head(s)>> \o StripCode(Tail(s))
             ELSE SubSeq(s, 2, q - 1) \o StripCode(SubSeq(s, q + 1, Len(s)))

\* re.sub(r"\[(.+?)\]\(.+?\)", r"\1", s): "[", a label of one character at
\* least up to the first "](", a target of one character at least up to the
\* first ")"; the label stays.
RECURSIVE StripLinks(_)
StripLinks(s) ==
    IF s = <<>> THEN <<>>
    ELSE LET q == IF Head(s) = "[" THEN FindFrom(s, <<"]", "(">>, 3) ELSE 0
             r == IF q = 0 THEN 0 ELSE FindFrom(s, <<")">>, q + 3)
         IN  IF r = 0 THEN <<Head(s)>> \o StripLinks(Tail(s))
             ELSE SubSeq(s, 2, q - 1) \o StripLinks(SubSeq(s, r + 1, Len(s)))

\* s.replace(ch, new) for a one-character ch.
RECURSIVE Replace(_, _, _)
Replace(s, ch, new) ==
    IF s = <<>> THEN <<>>
    ELSE (IF Head(s) = ch THEN new ELSE <<Head(s)>>) \o Replace(Tail(s), ch, new)

\* .replace("&", "&amp;").replace("<", "&lt;").replace(">", "&gt;")
Escape(s) ==
    Replace(Replace(Replace(s, "&", <<"&", "a", "m", "p", ";">>),
                    "<", <<"&", "l", "t", ";">>),
            ">", <<"&", "g", "t", ";">>)

\* re.sub(r"\*\*(.+?)\*\*", r"<b>\1</b>", s): "**", one character at least,
\* and the first "**" after it.
RECURSIVE BoldConvert(_)
BoldConvert(s) ==
    IF s = <<>> THEN <<>>
    ELSE LET q == IF StartsWith(s, <<"*", "*">>) THEN FindFrom(s, <<"*", "*">>, 4)
                  ELSE 0
         IN  IF q = 0 THEN <<Head(s)>> \o BoldConvert(Tail(s))
             ELSE <<"<", "b", ">">> \o SubSeq(s, 3, q - 1) \o <<"<", "/", "b", ">">>
                    \o BoldConvert(SubSeq(s, q + 2, Len(s)))

\* Lines 601-604, 522-525, 562-565 and 381-389: escape, then convert bold.
EscapeAndBold(text) == BoldConvert(Escape(text))

\* Lines 594-604: the text handed to the Paragraph of a regular line.
ParagraphMarkup(text) == EscapeAndBold(StripLinks(StripCode(text)))

\* Lines 518-525: the text handed to the Paragraph of a bullet item.
BulletMarkup(s) == EscapeAndBold(SubSeq(s, 3, Len(s)))

\* Lines 555-565: group 2 of the match, escaped and with bold converted.
NumberedMarkup(s) ==
    EscapeAndBold(SubSeq(s, LeadingDigits(s) + 3, Len(s)))

\* Number of leading "#" of s.
RECURSIVE LeadingHashes(_)
LeadingHashes(s) ==
    IF s = <<>> \/ Head(s) # "#" THEN 0 ELSE 1 + LeadingHashes(Tail(s))

\* Lines 266-269: re.sub(r"^#{1,6}\s+", "", text), then the escaping; bold
\* markers are not converted.
HeadingMarkup(s) ==
    LET n == LeadingHashes(s)
    IN  IF 1 <= n /\ n <= 6 /\ Len(s) > n /\ s[n + 1] \in Whitespace
        THEN Escape(LStrip(SubSeq(s, n + 1, Len(s))))
        ELSE Escape(s)

\* Lines 376-395: the texts of the Paragraphs of wrapped_data.
CellMarkup(table_data) ==
    [r \in 1..Len(table_data) |->
        [k \in 1..Len(table_data[r]) |-> EscapeAndBold(table_data[r][k])]]

\* The two Hangul characters of the first pattern, one string each.
ButtonWord == <<"beo", "teun">>
PdfWord == <<"P", "D", "F">>

\* Lines 124-125 on one line ("." never matches a newline, so no match spans
\* two lines), then markdown_text.split("\n").
CleanLine(s) == SubBracketed(SubBracketed(s, ButtonWord), PdfWord)

\* ------------------------------------------------------------------ inputs
\* The Markdown lines the inputs are drawn from.  "---" is a rule, and after
\* a pipe line it is the separator line of a table.
LinePool ==
    { <<>>,
      <<"a", "b">>,
      <<"-", "-", "-">>,
      <<"#", " ", "T">>,
      <<"#", "#", " ", "T">>,
      <<"-", " ", "x">>,
      <<"1", ".", " ", "x">>,
      <<"|", "a", "|", "b", "|">>,
      <<"|", "a", "|">>,
      <<"|">> }

\* The lines of the calls without images: blank, paragraph, rule, level-2
\* heading and the pipe lines.
TextPool ==
    { <<>>,
      <<"a", "b">>,
      <<"-", "-", "-">>,
      <<"#", "#", " ", "T">>,
      <<"|", "a", "|", "b", "|">>,
      <<"|", "a", "|">>,
      <<"|">> }

\* The sequences over S of 1 to n elements ("".split("\n") is [""]: there is
\* always one line at least).
RECURSIVE SeqsUpTo(_, _)
SeqsUpTo(S, n) ==
    IF n = 1 THEN {<<x>> : x \in S}
    ELSE LET shorter == SeqsUpTo(S, n - 1)
         IN  shorter \cup {Append(q, x) : q \in {r \in shorter : Len(r) = n - 1}, x \in S}

\* A pipe-framed table line of c cells: "|a|a|...|".
RECURSIVE PipeRow(_)
PipeRow(c) == IF c = 0 THEN <<"|">> ELSE PipeRow(c - 1) \o <<"a", "|">>

\* The table inputs: a header line of c cells, a separator line, and n data
\* lines of c cells.
TableDocs ==
    { <<PipeRow(c), <<"-", "-", "-">>>> \o [k \in 1..n |-> PipeRow(c)] :
        c \in 1..MaxCols, n \in 1..MaxRows }

\* Texts with inline markup: two bold spans, a bold span around a tag, an
\* inline code span, a link, and an ampersand.
BoldPair == <<"*", "*", "A", "*", "*", " ", "a", "n", "d", " ", "*", "*", "B", "*", "*">>
BoldTag == <<"*", "*", "<", "b", ">", "*", "*">>
CodeSpan == <<Backtick, "c", Backtick>>
LinkSpan == <<"[", "l", "]", "(", "u", ")">>
Ampersand == <<"a", "&", "b">>
MarkupTexts == {BoldPair, BoldTag, CodeSpan, LinkSpan, Ampersand}

\* n times "#".
RECURSIVE Hashes(_)
Hashes(n) == IF n = 0 THEN <<>> ELSE <<"#">> \o Hashes(n - 1)

\* A text as each kind of block: a regular line, a bullet item, a numbered
\* item, a heading of level n, and the one data cell of a table.
AsParagraph(t) == <<t>>
AsBullet(t) == << <<"-", " ">> \o t >>
AsNumbered(t) == << <<"1", ".", " ">> \o t >>
AsHeading(n, t) == << Hashes(n) \o <<" ">> \o t >>
AsCell(t) == << <<"|", "h", "|">>, <<"-", "-", "-">>, <<"|">> \o t \o <<"|">> >>

\* Lines that begin like a rule: "---", "----", "***", "---note" and
\* "***text***".
RuleLikeLines ==
    { <<"-", "-", "-">>,
      <<"-", "-", "-", "-">>,
      <<"*", "*", "*">>,
      <<"-", "-", "-", "n", "o", "t", "e">>,
      <<"*", "*", "*", "t", "e", "x", "t", "*", "*", "*">> }

\* Heading lines, with and without a pipe in their text, and the lines that
\* follow them: "---" and a regular line.
HeadingLines ==
    { <<"#", "#", " ", "T", "|", "x">>,
      <<"#", "#", " ", "T">>,
      <<"#", " ", "T", "|", "x">> }
FollowingLines == { <<"-", "-", "-">>, <<"a", "b">> }

\* Tables with an empty cell between two pipes, without the framing pipes,
\* and with blanks around the cells.
CellDocs ==
    { << <<"|", "a", "|", "|", "b", "|">>,
         <<"-", "-", "-">>,
         <<"|", "c", "|", "|", "d", "|">> >>,
      << <<"a", "|", "b">>,
         <<"-", "-", "-">>,
         <<"c", "|", "d">> >>,
      << <<"|", " ", "a", " ", "|", " ", "b", " ", "|">>,
         <<"|", "-", "-", "-", "|", "-", "-", "-", "|">>,
         <<"|", " ", "c", " ", "|", " ", " ", "|", " ", "d", " ", "|">> >> }

\* The inputs of the calls on marked-up text.
MarkupDocs ==
    {AsParagraph(t) : t \in MarkupTexts}
      \cup {AsBullet(t) : t \in MarkupTexts}
      \cup {AsNumbered(t) : t \in MarkupTexts}
      \cup {AsHeading(n, t) : n \in 1..4, t \in MarkupTexts}
      \cup {AsCell(t) : t \in MarkupTexts}
      \cup {<<l>> : l \in RuleLikeLines}
      \cup {<<h, f>> : h \in HeadingLines, f \in FollowingLines}
      \cup CellDocs

\* What Paragraph.wrap can answer for a text, as a number of wrapped lines.
\* 43 lines of body text are 645pt, three points short of a whole page; no
\* block of these inputs is higher than a page.
ParagraphWraps == {1, 43}
HeadingWraps == {1, 2}
CellWraps == {1, 12}

\* A regular line whose text wraps to 44 lines: 660pt, more than the 648pt
\* between the top and bottom margins of a page.
LongText == <<"L", "o", "n", "g">>
LongWraps == {44}

\* The lines of the repeated calls, each measured the same way every time:
\* blank, a rule and the long line.
RepeatPool == { <<>>, <<"-", "-", "-">>, LongText }

\* Inputs that start with blank lines: up to MaxBlankLines of them, then a
\* blank line, a level-2 heading or a regular line.
Blanks(k) == [j \in 1..k |-> <<>>]
BlankFollowers == { <<>>, <<"#", "#", " ", "T">>, <<"a", "b">> }
BlankDocs == { Blanks(k) \o <<b>> : k \in 0..MaxBlankLines, b \in BlankFollowers }

\* What Paragraph.wrap can answer for the text of a regular line.
WrapsOf(text) == IF text = LongText THEN LongWraps ELSE ParagraphWraps

\* The lines of the calls on paragraph text: blank, a short regular line
\* and the long one.
ParagraphPool == { <<>>, <<"a", "b">>, LongText }


\* How the handling of one image buffer ends: ImageReader or getSize raises,
\* drawImage raises, or the image is drawn.
ImageOutcomes == {"decode_fails", "draw_fails", "drawn"}

\* The image buffers of a call: the chart_image argument, the k-th element of
\* chart_images, and None.
None == <<"None", 0>>
SingleChart == <<"chart_image", 0>>
ListChart(k) == <<"chart_images", k>>

\* What ImageReader.getSize answers for a buffer (pixels): the second image of
\* the list is a portrait, the others are landscapes.
ImageSize(buf) == IF buf = ListChart(2) THEN <<500, 1000>> ELSE <<1600, 900>>

\* ------------------------------------------------------------------- state
VARIABLES
    pc,             \* where create_pdf is
    markdown_text,  \* argument: the Markdown lines
    chart_image,    \* argument: None or the single image buffer
    chart_images,   \* argument: the list of image buffers (<<>>: None or [])
    all_charts,     \* line 39
    korean_font,    \* line 80
    korean_font_bold, \* line 81
    buffer,         \* the BytesIO of line 119: "none", "open", "closed"
    lines,          \* line 161
    i,              \* line 162 (0-based, as in the code)
    y_position,     \* line 156
    chart_drawn,    \* line 165
    pages,          \* number of c.showPage() calls so far
    canvas,         \* the primitives placed so far, in order
    gallery_next,   \* draw_current_chart: position of its for loop (1-based)
    printed,        \* the print() calls of the except clauses, in order
    exc,            \* the exception create_pdf left by, or "none"
    message,        \* what the message of that exception names
    table_arg,      \* the last Table(...) call: the lengths of its rows, its
                    \* column widths, and the font sizes and padding of its styles
    last,           \* the block the last step processed
    clock,          \* the wall clock of the environment, in seconds
    rl_invariant,   \* rl_config.invariant of the environment
    returned        \* the documents returned by the calls so far, in order

vars == <<pc, markdown_text, chart_image, chart_images, all_charts, korean_font,
          korean_font_bold, buffer, lines, i, y_position, chart_drawn, pages,
          canvas, gallery_next, printed, exc, message, table_arg, last,
          clock, rl_invariant, returned>>

NoBlock == [kind |-> "none", at |-> 0, y |-> 0, pages |-> 0]
NoTable == [rows |-> <<>>, cols |-> 0, widths |-> <<>>, tier |-> <<>>]

\* The environment of the first call: the clock, nothing returned yet, and
\* rl_config.invariant, which is off unless the installation sets it.
Environment(flags) ==
    /\ clock = 0
    /\ rl_invariant \in flags
    /\ returned = <<>>

\* The state at the call: the arguments, drawn from the given lines and
\* images, and nothing done yet.
CallState(docs, singles, max_charts) ==
    /\ pc = "start"
    /\ markdown_text \in docs
    /\ chart_image \in singles
    /\ \E n \in 0..max_charts : chart_images = [k \in 1..n |-> ListChart(k)]
    /\ all_charts = <<>>
    /\ korean_font = "None"
    /\ korean_font_bold = "None"
    /\ buffer = "none"
    /\ lines = <<>>
    /\ i = 0
    /\ y_position = 0
    /\ chart_drawn = FALSE
    /\ pages = 0
    /\ canvas = <<>>
    /\ gallery_next = 0
    /\ printed = <<>>
    /\ exc = "none"
    /\ message = <<>>
    /\ table_arg = NoTable
    /\ last = NoBlock

\* A first call in the default environment.
CalledWith(docs, singles, max_charts) ==
    /\ Environment({FALSE})
    /\ CallState(docs, singles, max_charts)

Called(pool, max_lines, singles, max_charts) ==
    CalledWith(SeqsUpTo(pool, max_lines), singles, max_charts)

\* Calls with any of the lines and with images.
Init == Called(LinePool, MaxLines, {None, SingleChart}, MaxCharts)

\* Calls without images, on longer inputs made of the lines of TextPool.
InitText == Called(TextPool, MaxTextLines, {None}, 0)

\* Calls without images whose text is one table.
InitTable == CalledWith(TableDocs, {None}, 0)

\* Calls without images on paragraph text.
InitParagraphs == Called(ParagraphPool, MaxParagraphs, {None}, 0)

\* First calls, of those that are repeated, in either setting of
\* rl_config.invariant.
InitRepeat ==
    /\ Environment(BOOLEAN)
    /\ CallState(SeqsUpTo(RepeatPool, MaxRepeatLines), {None}, 0)

\* Calls without images on text that starts with blank lines.
InitBlank == CalledWith(BlankDocs, {None}, 0)

\* Calls without images on marked-up text.
InitMarkup == CalledWith(MarkupDocs, {None}, 0)

\* ------------------------------------------------------------ before loop
\* Lines 39-43.
MergeCharts(one, many) ==
    IF many # <<>> THEN many
    ELSE IF one # None THEN <<one>> ELSE <<>>

\* Lines 84-91 and 94-101: the name a registration loop leaves, given whether
\* some path of its list exists and registers.
RegisterFont(found, name) == IF found THEN name ELSE "None"

\* Lines 104-105.
BoldFallback(bold, regular) == IF bold = "None" THEN regular ELSE bold

\* Line 107.
FontNeverMissing(regular) == FALSE
FontMissing(regular) == regular = "None"

\* Lines 108-116: what the message of the RuntimeError names.
FontErrorMessage == <<"fonts_dir", "NanumGothic.ttf">>

\* Lines 38-116: merge the image arguments, register the fonts, and raise
\* when no regular font registered.
Prepare ==
    /\ pc = "start"
    /\ \E regular_found \in BOOLEAN, bold_found \in BOOLEAN :
         LET regular == RegisterFont(regular_found, "KoreanFont")
             bold == RegisterFont(bold_found, "KoreanFontBold")
         IN  /\ all_charts' = MergeCharts(chart_image, chart_images)
             /\ korean_font' = regular
             /\ korean_font_bold' = BoldFallback(bold, regular)
             /\ IF FontMissing(regular)
                THEN /\ pc' = "raised"
                     /\ exc' = "RuntimeError"
                     /\ message' = FontErrorMessage
                ELSE /\ pc' = "open"
                     /\ UNCHANGED <<exc, message>>
    /\ UNCHANGED <<clock, rl_invariant, returned>>
    /\ UNCHANGED <<markdown_text, chart_image, chart_images, buffer, lines, i,
                   y_position, chart_drawn, pages, canvas, gallery_next,
                   printed, table_arg, last>>

\* Lines 118-165: the buffer and the canvas, the cleaned lines, the cursor.
OpenCanvas ==
    /\ pc = "open"
    /\ buffer' = "open"
    /\ lines' = [k \in 1..Len(markdown_text) |-> CleanLine(markdown_text[k])]
    /\ y_position' = PageTop
    /\ i' = 0
    /\ chart_drawn' = FALSE
    /\ pc' = "loop"
    /\ UNCHANGED <<clock, rl_invariant, returned>>
    /\ UNCHANGED <<markdown_text, chart_image, chart_images, all_charts,
                   korean_font, korean_font_bold, pages, canvas, gallery_next,
                   printed, exc, message, table_arg, last>>


\* ------------------------------------------------------------- the cursor
\* The cursor: y_position and the number of pages flushed.
Cursor(y, pgs) == [y |-> y, pages |-> pgs]

\* Lines 167-170.
NewPageKeepsCursor(cur) == Cursor(cur.y, cur.pages + 1)
new_page(cur) == Cursor(PageTop, cur.pages + 1)

\* A primitive placed on the canvas: its kind, the page it is on, its upper
\* and lower edge, and the line or image buffer it comes from.
Prim(kind, page, top, bottom, src) ==
    [kind |-> kind, page |-> page, top |-> top, bottom |-> bottom, src |-> src]

Line(k) == <<"line", k>>

\* A Paragraph drawn on the canvas also has the text it was made from; a
\* heading has its level, a table the texts of its cells.
TextPrim(kind, page, top, bottom, src, text) ==
    [kind |-> kind, page |-> page, top |-> top, bottom |-> bottom, src |-> src,
     text |-> text]

HeadingPrim(level, page, top, bottom, src, text) ==
    [kind |-> "heading", page |-> page, top |-> top, bottom |-> bottom,
     src |-> src, text |-> text, level |-> level]

TablePrim(page, top, bottom, src, cells) ==
    [kind |-> "table", page |-> page, top |-> top, bottom |-> bottom,
     src |-> src, cells |-> cells]

\* The fit checks of lines 616, 540, 578 and 453.
ParagraphNeverBreaks(y, p_h) == FALSE
ParagraphBreaks(y, p_h) == y - p_h < 1 * inch
BulletBreaks(y, p_h) == y - p_h < 1 * inch
NumberBreaks(y, p_h) == y - p_h < 1 * inch
TableNeverBreaks(y, table_height) == FALSE
TableBreaks(y, table_height) == y - table_height < 1 * inch

\* The cursor a block is drawn at: on a new page when its fit check says so.
PlaceAt(cur, breaks) == IF breaks THEN new_page(cur) ELSE cur

\* ------------------------------------------------------------ the line loop
InLoop == pc = "loop" /\ i < Len(lines)

\* Line 307.
line == Strip(lines[i + 1])

\* Lines 315-317.
IsTableStart ==
    /\ Contains(line, "|")
    /\ i + 1 < Len(lines)
    /\ IsSeparator(Strip(lines[i + 2]))

\* Lines 462-474: the level of a heading line, 0 for any other line.
HeadingLevel(s) ==
    IF StartsWith(s, <<"#", "#", "#", "#", " ">>) THEN 4
    ELSE IF StartsWith(s, <<"#", "#", "#", " ">>) THEN 3
    ELSE IF StartsWith(s, <<"#", "#", " ">>) THEN 2
    ELSE IF StartsWith(s, <<"#", " ">>) THEN 1
    ELSE 0

\* Line 509.
IsRule(s) == StartsWith(s, <<"-", "-", "-">>) \/ StartsWith(s, <<"*", "*", "*">>)

\* Line 517.
IsBullet(s) == StartsWith(s, <<"-", " ">>) \/ StartsWith(s, <<"*", " ">>)

Block(kind) == [kind |-> kind, at |-> i, y |-> y_position, pages |-> pages]

\* Lines 309-312.
BlankLine ==
    /\ InLoop
    /\ line = <<>>
    /\ y_position' = y_position - P(8)
    /\ i' = i + 1
    /\ last' = Block("blank")
    /\ UNCHANGED <<clock, rl_invariant, returned>>
    /\ UNCHANGED <<pc, markdown_text, chart_image, chart_images, all_charts,
                   korean_font, korean_font_bold, buffer, lines, chart_drawn,
                   pages, canvas, gallery_next, printed, exc, message,
                   table_arg>>

\* Lines 508-515.
HorizontalRule ==
    /\ InLoop
    /\ line # <<>>
    /\ ~IsTableStart
    /\ HeadingLevel(line) = 0
    /\ IsRule(line)
    /\ canvas' = Append(canvas, Prim("rule", pages, y_position, y_position, Line(i)))
    /\ y_position' = y_position - P(15)
    /\ i' = i + 1
    /\ last' = Block("rule")
    /\ UNCHANGED <<clock, rl_invariant, returned>>
    /\ UNCHANGED <<pc, markdown_text, chart_image, chart_images, all_charts,
                   korean_font, korean_font_bold, buffer, lines, chart_drawn,
                   pages, gallery_next, printed, exc, message, table_arg>>

\* Lines 517-552.  The bullet dot has radius 3 around y_position + 1.
BulletItem ==
    /\ InLoop
    /\ line # <<>>
    /\ ~IsTableStart
    /\ HeadingLevel(line) = 0
    /\ ~IsRule(line)
    /\ IsBullet(line)
    /\ \E wrapped \in ParagraphWraps :
         LET p_h == wrapped * LINE_HEIGHTS("body")
             cur == PlaceAt(Cursor(y_position, pages), BulletBreaks(y_position, p_h))
         IN  /\ canvas' = canvas \o
                   << Prim("dot", cur.pages, cur.y + P(4), cur.y - P(2), Line(i)),
                      TextPrim("bullet", cur.pages, cur.y + P(8), cur.y - p_h + P(8),
                               Line(i), BulletMarkup(line)) >>
             /\ y_position' = cur.y - (p_h + P(4))
             /\ pages' = cur.pages
    /\ i' = i + 1
    /\ last' = Block("bullet")
    /\ UNCHANGED <<clock, rl_invariant, returned>>
    /\ UNCHANGED <<pc, markdown_text, chart_image, chart_images, all_charts,
                   korean_font, korean_font_bold, buffer, lines, chart_drawn,
                   gallery_next, printed, exc, message, table_arg>>

\* Lines 554-591.
NumberedItem ==
    /\ InLoop
    /\ line # <<>>
    /\ ~IsTableStart
    /\ HeadingLevel(line) = 0
    /\ ~IsRule(line)
    /\ ~IsBullet(line)
    /\ IsNumbered(line)
    /\ NumberedMatch(line)
    /\ \E wrapped \in ParagraphWraps :
         LET p_h == wrapped * LINE_HEIGHTS("body")
             cur == PlaceAt(Cursor(y_position, pages), NumberBreaks(y_position, p_h))
         IN  /\ canvas' = canvas \o
                   << Prim("number", cur.pages, cur.y + FONT_SIZES("body"), cur.y, Line(i)),
                      TextPrim("item", cur.pages, cur.y + P(10), cur.y - p_h + P(10),
                               Line(i), NumberedMarkup(line)) >>
             /\ y_position' = cur.y - (p_h + P(4))
             /\ pages' = cur.pages
    /\ i' = i + 1
    /\ last' = Block("numbered")
    /\ UNCHANGED <<clock, rl_invariant, returned>>
    /\ UNCHANGED <<pc, markdown_text, chart_image, chart_images, all_charts,
                   korean_font, korean_font_bold, buffer, lines, chart_drawn,
                   gallery_next, printed, exc, message, table_arg>>

\* Lines 593-621: every line no earlier branch took.
ParagraphBlock ==
    /\ InLoop
    /\ line # <<>>
    /\ ~IsTableStart
    /\ HeadingLevel(line) = 0
    /\ ~IsRule(line)
    /\ ~IsBullet(line)
    /\ ~(IsNumbered(line) /\ NumberedMatch(line))
    /\ \E wrapped \in WrapsOf(line) :
         LET p_h == wrapped * LINE_HEIGHTS("body")
             cur == PlaceAt(Cursor(y_position, pages), ParagraphBreaks(y_position, p_h))
         IN  /\ canvas' = Append(canvas,
                   TextPrim("paragraph", cur.pages, cur.y + P(10),
                            cur.y - p_h + P(10), Line(i), ParagraphMarkup(line)))
             /\ y_position' = cur.y - (p_h + P(2))
             /\ pages' = cur.pages
    /\ i' = i + 1
    /\ last' = Block("paragraph")
    /\ UNCHANGED <<clock, rl_invariant, returned>>
    /\ UNCHANGED <<pc, markdown_text, chart_image, chart_images, all_charts,
                   korean_font, korean_font_bold, buffer, lines, chart_drawn,
                   gallery_next, printed, exc, message, table_arg>>


\* ----------------------------------------------------------------- tables
\* Lines 330-338: the data rows from line j (0-based) on, and the index of
\* the first line that is not a row.  A pipe line whose cells are all empty
\* is consumed and adds no row.
RECURSIVE DataRows(_)
DataRows(j) ==
    IF j >= Len(lines) THEN [rows |-> <<>>, next |-> j]
    ELSE LET row_line == Strip(lines[j + 1])
         IN  IF row_line = <<>> \/ ~Contains(row_line, "|")
             THEN [rows |-> <<>>, next |-> j]
             ELSE LET rest == DataRows(j + 1)
                      row_cells == Cells(row_line)
                  IN  [rows |-> IF row_cells # <<>> THEN <<row_cells>> \o rest.rows
                                ELSE rest.rows,
                       next |-> rest.next]

\* Lines 322-324 and 330-338: header row first.
TableData == <<Cells(line)>> \o DataRows(i + 2).rows

\* Line 341.
TableRenderedWithHeaderOnly(table_data) == table_data # <<>>
TableRendered(table_data) == table_data # <<>> /\ Len(table_data) > 1

\* Lines 345-356.
TableTierLate(num_cols) ==
    IF num_cols >= 7
    THEN [header_font_size |-> P(7), data_font_size |-> P(6), cell_padding |-> P(4)]
    ELSE IF num_cols >= 5
    THEN [header_font_size |-> P(8), data_font_size |-> P(7), cell_padding |-> P(6)]
    ELSE [header_font_size |-> P(10), data_font_size |-> P(9), cell_padding |-> P(8)]
TableTier(num_cols) ==
    IF num_cols >= 6
    THEN [header_font_size |-> P(7), data_font_size |-> P(6), cell_padding |-> P(4)]
    ELSE IF num_cols >= 4
    THEN [header_font_size |-> P(8), data_font_size |-> P(7), cell_padding |-> P(6)]
    ELSE [header_font_size |-> P(10), data_font_size |-> P(9), cell_padding |-> P(8)]

\* Lines 376-395: wrapped_data has one Paragraph for each cell of table_data;
\* these are the lengths of its rows.
WrappedRowLengths(table_data) == [r \in 1..Len(table_data) |-> Len(table_data[r])]

\* Line 404 divides by num_cols: ZeroDivisionError when the header row has
\* no cell.
ColWidthsRaise(num_cols) == ~(num_cols > 2) /\ num_cols = 0

\* Lines 398-404, for num_cols > 0.
ColWidthsEven(num_cols) == [k \in 1..num_cols |-> max_width \div num_cols]
col_widths(num_cols) ==
    IF num_cols > 2
    THEN LET base_col_width == max_width \div (num_cols + 1)
         IN  [k \in 1..num_cols |-> IF k < num_cols THEN base_col_width
                                    ELSE base_col_width * 2]
    ELSE [k \in 1..num_cols |-> max_width \div num_cols]

\* Line 406: Table(wrapped_data, colWidths=col_widths).  A row shorter than
\* the widths is accepted; for a row longer than the widths the constructor
\* either raises ValueError or lays the table out, depending on the release
\* of the library.
TableOutcomes(row_lengths, n_widths) ==
    IF \E r \in 1..Len(row_lengths) : row_lengths[r] > n_widths
    THEN {"ValueError", "laid_out"}
    ELSE {"laid_out"}

\* Line 451: table.wrap.  A row is as high as its highest cell (wrapped lines
\* times the leading of lines 363 and 371) plus the padding above and below.
RECURSIVE SumTo(_, _)
SumTo(f, n) == IF n = 0 THEN 0 ELSE f[n] + SumTo(f, n - 1)

TableHeight(wraps, tier) ==
    SumTo([r \in 1..Len(wraps) |->
              wraps[r] * ((IF r = 1 THEN tier.header_font_size
                           ELSE tier.data_font_size) + P(2))
              + 2 * tier.cell_padding],
          Len(wraps))

\* Lines 314-459: a pipe line followed by a separator line.
TableBlock ==
    /\ InLoop
    /\ line # <<>>
    /\ IsTableStart
    /\ LET table_data == TableData
           num_cols == Len(table_data[1])
           tier == TableTier(num_cols)
       IN  /\ i' = DataRows(i + 2).next
           /\ IF ~TableRendered(table_data)
              THEN /\ last' = Block("table_dropped")
                   /\ UNCHANGED <<pc, buffer, y_position, pages, canvas, exc,
                                  table_arg>>
              ELSE IF ColWidthsRaise(num_cols)
              THEN /\ pc' = "raised"
                   /\ exc' = "ZeroDivisionError"
                   /\ last' = Block("table_raised")
                   /\ UNCHANGED <<buffer, y_position, pages, canvas, table_arg>>
              ELSE \E wraps \in [1..Len(table_data) -> CellWraps],
                      outcome \in TableOutcomes(WrappedRowLengths(table_data),
                                                Len(col_widths(num_cols))) :
                     /\ table_arg' = [rows |-> WrappedRowLengths(table_data),
                                      cols |-> Len(col_widths(num_cols)),
                                      widths |-> col_widths(num_cols),
                                      tier |-> tier]
                     /\ IF outcome = "ValueError"
                        THEN /\ pc' = "raised"
                             /\ exc' = "ValueError"
                             /\ last' = Block("table_raised")
                             /\ UNCHANGED <<buffer, y_position, pages, canvas>>
                        ELSE LET table_height == TableHeight(wraps, tier)
                                 cur == PlaceAt(Cursor(y_position, pages),
                                                TableBreaks(y_position, table_height))
                             IN  /\ canvas' = Append(canvas,
                                       TablePrim(cur.pages, cur.y,
                                                 cur.y - table_height, Line(i),
                                                 CellMarkup(table_data)))
                                 /\ y_position' = cur.y - (table_height + P(15))
                                 /\ pages' = cur.pages
                                 /\ last' = Block("table")
                                 /\ UNCHANGED <<pc, buffer, exc>>
    /\ UNCHANGED <<clock, rl_invariant, returned>>
    /\ UNCHANGED <<markdown_text, chart_image, chart_images, all_charts,
                   korean_font, korean_font_bold, lines, chart_drawn,
                   gallery_next, printed, message>>

\* --------------------------------------------------------------- headings
\* Lines 246-304: draw_heading.  The answer is the value returned (the new
\* y_position of the caller), the pages flushed and the primitives drawn.
draw_heading(text, level, y_pos, pgs, wrapped, src) ==
    LET style_key == level_map(level)
        line_height == LINE_HEIGHTS(style_key)
        lead == IF level <= 2 THEN y_pos - P(10) ELSE y_pos
        c1 == PlaceAt(Cursor(lead, pgs), lead < (3 * inch) \div 2)
        p_height == wrapped * line_height
        c2 == PlaceAt(c1, c1.y - p_height < 1 * inch)
        underline_y == c2.y - p_height - P(3)
        under == IF level <= 2
                 THEN <<Prim("underline", c2.pages, underline_y, underline_y, src)>>
                 ELSE <<>>
    IN  [ y |-> c2.y - p_height - line_height - (IF level <= 2 THEN P(8) ELSE P(4)),
          pages |-> c2.pages,
          prims |-> under \o <<HeadingPrim(level, c2.pages, c2.y, c2.y - p_height,
                                            src, HeadingMarkup(text))>> ]

\* Lines 462-473: headings of level 4, 3 and 2.
Heading ==
    /\ InLoop
    /\ line # <<>>
    /\ ~IsTableStart
    /\ HeadingLevel(line) >= 2
    /\ \E wrapped \in HeadingWraps :
         LET h == draw_heading(line, HeadingLevel(line), y_position, pages, wrapped, Line(i))
         IN  /\ y_position' = h.y
             /\ pages' = h.pages
             /\ canvas' = canvas \o h.prims
    /\ i' = i + 1
    /\ last' = Block("heading")
    /\ UNCHANGED <<clock, rl_invariant, returned>>
    /\ UNCHANGED <<pc, markdown_text, chart_image, chart_images, all_charts,
                   korean_font, korean_font_bold, buffer, lines, chart_drawn,
                   gallery_next, printed, exc, message, table_arg>>

\* ------------------------------------------------------------------ images
\* An image primitive also has its left edge and its width.
ImagePrim(page, top, x, size, src) ==
    [kind |-> "image", page |-> page, top |-> top, bottom |-> top - size.h,
     src |-> src, x |-> x, w |-> size.w]

\* Lines 482-486: the display size of the image drawn under a level-1 heading.
InlineSize(px) ==
    [w |-> max_width, h |-> (max_width * px[2]) \div px[1]]

\* Line 489.
InlineBreaks(y, display_height) == y - display_height < 1 * inch

\* Line 478.
InlineWanted(one, flag) == one # None /\ ~flag

\* Line 501: the flag after the image under a heading was drawn.
InlineFlagLeftUnset == FALSE
InlineDrawnFlag == TRUE

\* Lines 212-224: the display size of an image of the gallery.
max_chart_height == height - 2 * inch

GallerySize(px) ==
    LET display_width == (max_width * 80) \div 100
        display_height == (display_width * px[2]) \div px[1]
    IN  IF display_height > max_chart_height
        THEN [w |-> (max_chart_height * px[1]) \div px[2], h |-> max_chart_height]
        ELSE [w |-> display_width, h |-> display_height]

\* Line 227.
GalleryBreaks(y, display_height) == y - display_height < (3 * inch) \div 2

\* Line 231.
x_offset(display_width) == margin_left + (max_width - display_width) \div 2

\* Lines 474-506: a level-1 heading, and under it the chart_image argument
\* when it has not been drawn yet.
HeadingOne ==
    /\ InLoop
    /\ line # <<>>
    /\ ~IsTableStart
    /\ HeadingLevel(line) = 1
    /\ \E wrapped \in HeadingWraps, outcome \in ImageOutcomes :
         LET h == draw_heading(line, 1, y_position, pages, wrapped, Line(i))
             size == InlineSize(ImageSize(chart_image))
             cur == PlaceAt(Cursor(h.y, h.pages), InlineBreaks(h.y, size.h))
         IN  IF ~InlineWanted(chart_image, chart_drawn)
             THEN /\ y_position' = h.y
                  /\ pages' = h.pages
                  /\ canvas' = canvas \o h.prims
                  /\ UNCHANGED <<chart_drawn, printed>>
             ELSE CASE outcome = "decode_fails" ->
                         /\ y_position' = h.y
                         /\ pages' = h.pages
                         /\ canvas' = canvas \o h.prims
                         /\ printed' = Append(printed, chart_image)
                         /\ UNCHANGED chart_drawn
                    [] outcome = "draw_fails" ->
                         /\ y_position' = cur.y
                         /\ pages' = cur.pages
                         /\ canvas' = canvas \o h.prims
                         /\ printed' = Append(printed, chart_image)
                         /\ UNCHANGED chart_drawn
                    [] outcome = "drawn" ->
                         /\ y_position' = cur.y - (size.h + P(20))
                         /\ pages' = cur.pages
                         /\ canvas' = canvas \o h.prims \o
                               <<ImagePrim(cur.pages, cur.y, margin_left, size, chart_image)>>
                         /\ chart_drawn' = InlineDrawnFlag
                         /\ UNCHANGED printed
    /\ i' = i + 1
    /\ last' = Block("heading1")
    /\ UNCHANGED <<clock, rl_invariant, returned>>
    /\ UNCHANGED <<pc, markdown_text, chart_image, chart_images, all_charts,
                   korean_font, korean_font_bold, buffer, lines, gallery_next,
                   exc, message, table_arg>>

\* Line 624 (and line 206).
GalleryWanted(charts, flag) == charts # <<>> /\ ~flag

\* Lines 624-642: after the last line, the header of the gallery; then
\* draw_current_chart starts its loop.
TrailingGallery ==
    /\ pc = "loop"
    /\ i >= Len(lines)
    /\ GalleryWanted(all_charts, chart_drawn)
    /\ LET cur == PlaceAt(Cursor(y_position - P(20), pages),
                          y_position - P(20) < (5 * inch) \div 2)
       IN  /\ canvas' = canvas \o
                 << Prim("gallery_rule", cur.pages, cur.y, cur.y, None),
                    Prim("gallery_title", cur.pages, cur.y - P(15) + FONT_SIZES("h2"),
                         cur.y - P(15), None) >>
           /\ y_position' = cur.y - P(15) - P(25)
           /\ pages' = cur.pages
    /\ pc' = "gallery"
    /\ gallery_next' = 1
    /\ last' = Block("gallery_header")
    /\ UNCHANGED <<clock, rl_invariant, returned>>
    /\ UNCHANGED <<markdown_text, chart_image, chart_images, all_charts,
                   korean_font, korean_font_bold, buffer, lines, i, chart_drawn,
                   printed, exc, message, table_arg>>

\* Lines 207 and 242-243: the except clause is inside the for loop, so the
\* loop goes on with the next buffer whatever became of this one.
GalleryStopsAtFailure(k, outcome) ==
    IF outcome = "drawn" THEN k + 1 ELSE Len(all_charts) + 1
GalleryAdvance(k, outcome) == k + 1

\* Lines 207-244: one turn of the for loop of draw_current_chart; the flag is
\* set when the loop is over.
GalleryImage ==
    /\ pc = "gallery"
    /\ gallery_next <= Len(all_charts)
    /\ \E outcome \in ImageOutcomes :
         LET chart_buf == all_charts[gallery_next]
             size == GallerySize(ImageSize(chart_buf))
             cur == PlaceAt(Cursor(y_position, pages), GalleryBreaks(y_position, size.h))
         IN  /\ CASE outcome = "decode_fails" ->
                    /\ printed' = Append(printed, chart_buf)
                    /\ UNCHANGED <<y_position, pages, canvas>>
               [] outcome = "draw_fails" ->
                    /\ y_position' = cur.y
                    /\ pages' = cur.pages
                    /\ printed' = Append(printed, chart_buf)
                    /\ UNCHANGED canvas
               [] outcome = "drawn" ->
                    /\ y_position' = cur.y - (size.h + P(8))
                    /\ pages' = cur.pages
                    /\ canvas' = Append(canvas,
                          ImagePrim(cur.pages, cur.y, x_offset(size.w), size, chart_buf))
                    /\ UNCHANGED printed
             /\ gallery_next' = GalleryAdvance(gallery_next, outcome)
    /\ IF gallery_next' > Len(all_charts)
       THEN chart_drawn' = TRUE /\ pc' = "save"
       ELSE UNCHANGED <<chart_drawn, pc>>
    /\ last' = Block("gallery_image")
    /\ UNCHANGED <<clock, rl_invariant, returned>>
    /\ UNCHANGED <<markdown_text, chart_image, chart_images, all_charts,
                   korean_font, korean_font_bold, buffer, lines, i, exc, message,
                   table_arg>>

\* Line 120 and lines 647-648: the bytes c.save() writes into the buffer.
\* The canvas is made without the invariant argument, so the document takes
\* rl_config.invariant: when it is off, the info dictionary and the document
\* id are made from the time of the call; when it is on, from a fixed date.
CreationDate(flag, now) == IF flag THEN <<"fixed">> ELSE <<"time", now>>

pdf_bytes(pgs, prims, flag, now) ==
    [pages |-> pgs, canvas |-> prims, CreationDate |-> CreationDate(flag, now)]

\* Lines 647-650: c.save(), buffer.getvalue(), buffer.close(), return.
Save ==
    /\ IF pc = "loop"
       THEN i >= Len(lines) /\ ~GalleryWanted(all_charts, chart_drawn)
       ELSE pc = "save"
    /\ buffer' = "closed"
    /\ pc' = "done"
    /\ returned' = Append(returned, pdf_bytes(pages, canvas, rl_invariant, clock))
    /\ UNCHANGED <<clock, rl_invariant>>
    /\ UNCHANGED <<markdown_text, chart_image, chart_images, all_charts,
                   korean_font, korean_font_bold, lines, i, y_position,
                   chart_drawn, pages, canvas, gallery_next, printed, exc,
                   message, table_arg, last>>


\* A further call of create_pdf with the same arguments, in the same second
\* as the return of the call before it or in the next one: the locals start
\* afresh (lines 39, 80-81, 119, 156-165), the arguments and the environment
\* stay.
CallAgain ==
    /\ pc = "done"
    /\ Len(returned) < MaxCalls
    /\ \E now \in {clock, clock + 1} : clock' = now
    /\ pc' = "start"
    /\ all_charts' = <<>>
    /\ korean_font' = "None"
    /\ korean_font_bold' = "None"
    /\ buffer' = "none"
    /\ lines' = <<>>
    /\ i' = 0
    /\ y_position' = 0
    /\ chart_drawn' = FALSE
    /\ pages' = 0
    /\ canvas' = <<>>
    /\ gallery_next' = 0
    /\ printed' = <<>>
    /\ exc' = "none"
    /\ message' = <<>>
    /\ table_arg' = NoTable
    /\ last' = NoBlock
    /\ UNCHANGED <<markdown_text, chart_image, chart_images, rl_invariant,
                   returned>>

\* ------------------------------------------------------------ specification
Next ==
    \/ Prepare
    \/ OpenCanvas
    \/ BlankLine
    \/ TableBlock
    \/ Heading
    \/ HeadingOne
    \/ HorizontalRule
    \/ BulletItem
    \/ NumberedItem
    \/ ParagraphBlock
    \/ TrailingGallery
    \/ GalleryImage
    \/ Save

Spec == Init /\ [][Next]_vars

\* The steps a call without images and without level-1 heading, bullet or
\* numbered item can take.
NextText ==
    \/ Prepare
    \/ OpenCanvas
    \/ BlankLine
    \/ TableBlock
    \/ Heading
    \/ HorizontalRule
    \/ ParagraphBlock
    \/ Save

SpecText == InitText /\ [][NextText]_vars

\* The steps of a call whose text is one table.
NextTable ==
    \/ Prepare
    \/ OpenCanvas
    \/ TableBlock
    \/ Save

SpecTable == InitTable /\ [][NextTable]_vars

\* The steps of a call on paragraph text.
NextParagraphs ==
    \/ Prepare
    \/ OpenCanvas
    \/ BlankLine
    \/ ParagraphBlock
    \/ Save

SpecParagraphs == InitParagraphs /\ [][NextParagraphs]_vars

\* The steps of repeated calls on text without images.
NextRepeat ==
    \/ Prepare
    \/ OpenCanvas
    \/ BlankLine
    \/ HorizontalRule
    \/ ParagraphBlock
    \/ Save
    \/ CallAgain

SpecRepeat == InitRepeat /\ [][NextRepeat]_vars

\* The steps of a call on text that starts with blank lines.
NextBlank ==
    \/ Prepare
    \/ OpenCanvas
    \/ BlankLine
    \/ Heading
    \/ ParagraphBlock
    \/ Save

SpecBlank == InitBlank /\ [][NextBlank]_vars

\* The steps of a call on marked-up text: every branch of the line loop but
\* the blank line, and no gallery.
NextMarkup ==
    \/ Prepare
    \/ OpenCanvas
    \/ TableBlock
    \/ Heading
    \/ HeadingOne
    \/ HorizontalRule
    \/ BulletItem
    \/ NumberedItem
    \/ ParagraphBlock
    \/ Save

SpecMarkup == InitMarkup /\ [][NextMarkup]_vars


\* ------------------------------------------------------------------ claims
\* The primitives of a block that carry its content (the underline of a
\* heading, the dot of a bullet and the number of an item are decorations).
ContentKinds == {"paragraph", "bullet", "item", "heading", "rule", "table", "image"}

\* The height of an empty page between the margins.
UsableHeight == PageTop - 1 * inch

\* The image primitives on the canvas that come from one buffer.
ImageDraws(buf) ==
    {k \in 1..Len(canvas) : canvas[k].kind = "image" /\ canvas[k].src = buf}

\* An image buffer was attempted: it was drawn, or its failure was printed.
Handled(buf) ==
    \/ ImageDraws(buf) # {}
    \/ \E k \in 1..Len(printed) : printed[k] = buf

\* Line j (0-based) is not a pipe-delimited row: there is no such line, or it
\* is blank, or it has no pipe.
NoPipeRowAt(j) ==
    \/ j >= Len(lines)
    \/ Strip(lines[j + 1]) = <<>>
    \/ ~Contains(Strip(lines[j + 1]), "|")

\* C1: once the cursor is set, after every block y_position is at or above
\* the bottom margin of one inch.
C1_CursorAboveBottomMargin ==
    buffer # "none" => y_position >= 1 * inch

\* C2: no block whose height fits on an empty page is drawn with its lower
\* edge below the bottom margin.
C2_FittingBlockAboveBottomMargin ==
    \A k \in 1..Len(canvas) :
        (canvas[k].kind \in ContentKinds
           /\ canvas[k].top - canvas[k].bottom <= UsableHeight)
        => canvas[k].bottom >= 1 * inch

\* C3: a table that was just drawn is on one page; when its height was more
\* than the space above the bottom margin, a page was flushed first and the
\* table starts at the top of the new page, before anything else on it;
\* otherwise it starts at the cursor on the current page.
C3_TablePlacedAsUnit ==
    last.kind = "table" =>
        LET t == canvas[Len(canvas)]
            table_height == t.top - t.bottom
        IN  /\ t.kind = "table"
            /\ pages = t.page
            /\ IF table_height > last.y - 1 * inch
               THEN /\ t.page = last.pages + 1
                    /\ t.top = PageTop
                    /\ \A k \in 1..(Len(canvas) - 1) : canvas[k].page # t.page
               ELSE /\ t.page = last.pages
                    /\ t.top = last.y
                    /\ t.bottom >= 1 * inch

\* C3 witness: a table that fits on an empty page was moved to a new page.
C3_Witness ==
    /\ last.kind = "table"
    /\ canvas[Len(canvas)].kind = "table"
    /\ canvas[Len(canvas)].page = last.pages + 1
    /\ canvas[Len(canvas)].top - canvas[Len(canvas)].bottom <= UsableHeight
    /\ Len(canvas) > 1

\* C4: once the fonts are registered, create_pdf leaves by no error: the only
\* exception is the RuntimeError of the font precondition.
C4_NoAbortAfterFonts ==
    pc = "raised" => exc = "RuntimeError"

\* C5: when control has left create_pdf, by return or by an exception, the
\* output buffer that was opened is closed.
C5_BufferClosedOnExit ==
    pc \in {"done", "raised"} => buffer # "open"

\* C6: when no regular font registered, create_pdf has raised RuntimeError
\* with no buffer or canvas created and nothing drawn, its message names
\* NanumGothic.ttf and the fonts directory, and no document is returned
\* without the registered font.
C6_FontPrecondition ==
    /\ (pc # "start" /\ korean_font = "None") =>
          /\ pc = "raised"
          /\ exc = "RuntimeError"
          /\ buffer = "none"
          /\ canvas = <<>>
          /\ pages = 0
          /\ Contains(message, "NanumGothic.ttf")
          /\ Contains(message, "fonts_dir")
    /\ exc = "RuntimeError" => korean_font = "None"
    /\ pc = "done" => korean_font = "KoreanFont"

\* C6 witness: the call ended with the font error.
C6_Witness ==
    pc = "raised" /\ exc = "RuntimeError" /\ buffer = "none"

\* C7: in the gallery every image before the current one was attempted,
\* whatever failed before it; when the gallery is over all were; a step that
\* handled an image never leaves by an error; and the returned document has
\* consumed every line.
C7_ImageFailureSkipped ==
    /\ pc = "gallery" =>
          \A k \in 1..(gallery_next - 1) : Handled(all_charts[k])
    /\ (pc \in {"save", "done"} /\ last.kind = "gallery_image") =>
          \A k \in 1..Len(all_charts) : Handled(all_charts[k])
    /\ pc = "raised" => last.kind \notin {"heading1", "gallery_image"}
    /\ pc = "done" => i = Len(lines)

\* C7 witness: the first image of the list failed, the second one was drawn
\* after it, and the document was returned.
C7_Witness ==
    /\ pc = "done"
    /\ Len(all_charts) = 2
    /\ ImageDraws(all_charts[1]) = {}
    /\ \E k \in 1..Len(printed) : printed[k] = all_charts[1]
    /\ ImageDraws(all_charts[2]) # {}

\* C8: every row handed to the table layout has as many cells as the header
\* row, which is the number of columns.
C8_RowsNormalised ==
    \A r \in 1..Len(table_arg.rows) : table_arg.rows[r] = table_arg.cols

\* C9: a pipe line followed by a separator line and by no pipe-delimited row
\* is consumed with its separator and nothing else changes: the index moves
\* by two, the cursor, the page count and the canvas stay, the loop goes on.
C9_HeaderOnlyTableDropped ==
    [][ (InLoop /\ line # <<>> /\ IsTableStart /\ NoPipeRowAt(i + 2)) =>
           /\ i' = i + 2
           /\ y_position' = y_position
           /\ pages' = pages
           /\ canvas' = canvas
           /\ pc' = "loop"
           /\ exc' = exc ]_vars

\* C9 witness: a header-only table was dropped and the line after its
\* separator is the next one to parse.
C9_Witness ==
    /\ pc = "loop"
    /\ last.kind = "table_dropped"
    /\ i = last.at + 2
    /\ i < Len(lines)
    /\ NoPipeRowAt(i)
    /\ y_position = last.y

\* C10: no image buffer is drawn more than once.
C10_ImageDrawnAtMostOnce ==
    \A buf \in {SingleChart} \cup {ListChart(k) : k \in 1..Len(chart_images)} :
        Cardinality(ImageDraws(buf)) <= 1

\* C10 witness: the image was drawn under a level-1 heading and a later
\* level-1 heading was processed without drawing it again.
C10_Witness ==
    /\ last.kind = "heading1"
    /\ last.at > 0
    /\ chart_drawn
    /\ \E k \in 1..Len(canvas) :
          /\ canvas[k].kind = "image"
          /\ \E m \in (k + 1)..Len(canvas) : canvas[m].kind = "heading"

\* The images supplied to the call: the chart_image argument and the elements
\* of chart_images.
Supplied ==
    (IF chart_image # None THEN {chart_image} ELSE {})
      \cup {chart_images[k] : k \in 1..Len(chart_images)}

\* The positions on the canvas of the header rule of the gallery.
GalleryRules == {k \in 1..Len(canvas) : canvas[k].kind = "gallery_rule"}

\* An image was placed under a level-1 heading: it is on the canvas with no
\* gallery header before it.
PlacedInline ==
    \E k \in 1..Len(canvas) :
        canvas[k].kind = "image" /\ \A g \in GalleryRules : g > k

\* The buffers of the image primitives from position k on, in canvas order.
RECURSIVE DrawnFrom(_)
DrawnFrom(k) ==
    IF k > Len(canvas) THEN <<>>
    ELSE IF canvas[k].kind = "image" THEN <<canvas[k].src>> \o DrawnFrom(k + 1)
         ELSE DrawnFrom(k + 1)

\* s is t with some elements left out, the order kept.
RECURSIVE IsSubsequence(_, _)
IsSubsequence(s, t) ==
    IF s = <<>> THEN TRUE
    ELSE IF t = <<>> THEN FALSE
    ELSE IF Head(s) = Head(t) THEN IsSubsequence(Tail(s), Tail(t))
         ELSE IsSubsequence(s, Tail(t))

\* C11: the header of the gallery is drawn only when every line has been
\* processed; and in a returned document for which images were supplied and
\* none was placed under a heading, the canvas ends with the gallery: one
\* header rule, the title right after it, then only images, in the order of
\* the list, every supplied image having been attempted there.
C11_TrailingGallery ==
    /\ GalleryRules # {} => i >= Len(lines)
    /\ (pc = "done" /\ Supplied # {} /\ ~PlacedInline) =>
          /\ Cardinality(GalleryRules) = 1
          /\ \A g \in GalleryRules :
                /\ g < Len(canvas)
                /\ canvas[g + 1].kind = "gallery_title"
                /\ \A k \in (g + 2)..Len(canvas) : canvas[k].kind = "image"
                /\ \/ IsSubsequence(DrawnFrom(g), <<chart_image>> \o chart_images)
                   \/ IsSubsequence(DrawnFrom(g), chart_images \o <<chart_image>>)
          /\ \A buf \in Supplied : Handled(buf)

\* 80% of the content width, and the height budget of an image.
WidthBudget == (max_width * 80) \div 100
HeightBudget == height - 2 * inch

\* C12: every image on the canvas keeps the ratio of its pixel size (to the
\* rounding of a tenth of a point), is 80% of the content width wide unless
\* its height would then be over the height budget, in which case its height
\* is the budget and its width follows from it; it is never wider than 80%
\* of the content width nor higher than the budget, and it is centred
\* between the margins.
C12_ImageScalingBounds ==
    \A k \in 1..Len(canvas) :
        canvas[k].kind = "image" =>
            LET px == ImageSize(canvas[k].src)
                w == canvas[k].w
                h == canvas[k].top - canvas[k].bottom
                slack == h * px[1] - w * px[2]
            IN  /\ -(px[1] + px[2]) < slack /\ slack < px[1] + px[2]
                /\ IF (WidthBudget * px[2]) \div px[1] > HeightBudget
                   THEN h = HeightBudget
                   ELSE w = WidthBudget
                /\ w <= WidthBudget
                /\ h <= HeightBudget
                /\ canvas[k].x = margin_left + (max_width - w) \div 2

\* C13: the widths handed to a table of C columns over the content width W
\* are W/(C+1) for each of the first C-1 columns and 2*W/(C+1) for the last
\* when C > 2, and W/C each when C <= 2; the last column is then twice any
\* other one, and for C in {1,2,3,4,6,8} the widths sum to W.
C13_ColumnWidths ==
    table_arg.cols > 0 =>
        LET C == table_arg.cols
            w == table_arg.widths
            W == max_width
        IN  /\ Len(w) = C
            /\ IF C > 2
               THEN /\ \A k \in 1..(C - 1) : w[k] * (C + 1) = W /\ w[C] = 2 * w[k]
                    /\ w[C] * (C + 1) = 2 * W
               ELSE \A k \in 1..C : w[k] * C = W
            /\ C \in {1, 2, 3, 4, 6, 8} => SumTo(w, C) = W

\* C13 witness: a table of 8 columns was drawn.
C13_Witness ==
    last.kind = "table" /\ table_arg.cols = 8 /\ Len(table_arg.widths) = 8

\* C14: the font sizes and the padding of a table follow from its number of
\* columns alone, whatever its number of rows: 7pt/6pt and 4pt from 6
\* columns on, 8pt/7pt and 6pt for 4 and 5 columns, 10pt/9pt and 8pt up to
\* 3 columns.
C14_TableFontTier ==
    table_arg.cols > 0 =>
        LET C == table_arg.cols
            t == table_arg.tier
        IN  /\ C >= 6 =>
                 t.header_font_size = P(7) /\ t.data_font_size = P(6)
                   /\ t.cell_padding = P(4)
            /\ (4 <= C /\ C <= 5) =>
                 t.header_font_size = P(8) /\ t.data_font_size = P(7)
                   /\ t.cell_padding = P(6)
            /\ C <= 3 =>
                 t.header_font_size = P(10) /\ t.data_font_size = P(9)
                   /\ t.cell_padding = P(8)

\* C14 witness: a table of 6 columns with the most rows was drawn in the
\* smallest tier.
C14_Witness ==
    /\ last.kind = "table"
    /\ table_arg.cols = 6
    /\ Len(table_arg.rows) = MaxRows + 1
    /\ table_arg.tier.header_font_size = P(7)

\* The cells of a table line as written: the fields between the pipes,
\* trimmed, without the empty first field of a leading pipe and the empty
\* last field of a trailing pipe; an empty field between two pipes stays.
FramedCells(s) ==
    LET fields == Split(s, "|")
        stripped == [k \in 1..Len(fields) |-> Strip(fields[k])]
        first == IF stripped[1] = <<>> THEN 2 ELSE 1
        final == IF stripped[Len(stripped)] = <<>> THEN Len(stripped) - 1
                 ELSE Len(stripped)
    IN  SubSeq(stripped, first, final)

\* The line (0-based j) as the code sees it.
LineAt(j) == Strip(lines[j + 1])

\* C15: the rows of a table that was just drawn, none of its lines having
\* been left out, hold the cells of their lines as written, every cell in
\* its column: the header row those of the pipe line, data row r those of
\* the r-th line after the separator.
C15_CellsKeepTheirColumn ==
    (last.kind = "table" /\ Len(canvas[Len(canvas)].cells) = i - last.at - 1) =>
        LET cells == canvas[Len(canvas)].cells
        IN  /\ cells[1] = CellMarkup(<<FramedCells(LineAt(last.at))>>)[1]
            /\ \A r \in 2..Len(cells) :
                  cells[r] = CellMarkup(<<FramedCells(LineAt(last.at + r))>>)[1]

\* The blocks that come from a line of the text.
LineBlockKinds ==
    {"blank", "rule", "bullet", "numbered", "paragraph", "heading", "heading1",
     "table", "table_dropped", "table_raised"}

\* s is made of three or more "-" only, or of three or more "*" only.
PureRule(s) ==
    /\ Len(s) >= 3
    /\ \/ \A k \in 1..Len(s) : s[k] = "-"
       \/ \A k \in 1..Len(s) : s[k] = "*"

\* C16: the line just processed was drawn as a rule exactly when, trimmed, it
\* is made of three or more "-" or of three or more "*" and nothing else;
\* and a line that is not blank, not such a rule and was not taken as a
\* table, a heading or a list item was drawn as a paragraph with its text.
C16_RuleClassification ==
    last.kind \in LineBlockKinds =>
        /\ last.kind = "rule" <=> PureRule(LineAt(last.at))
        /\ ( /\ LineAt(last.at) # <<>>
             /\ ~PureRule(LineAt(last.at))
             /\ last.kind \notin {"table", "table_dropped", "table_raised",
                                  "heading", "heading1", "bullet", "numbered"} )
           => /\ last.kind = "paragraph"
              /\ canvas[Len(canvas)].kind = "paragraph"
              /\ canvas[Len(canvas)].src = Line(last.at)
              /\ canvas[Len(canvas)].text = ParagraphMarkup(LineAt(last.at))

\* The number n of "#" a line starts with when 1 <= n <= 4 and a space
\* follows them, 0 otherwise.
MarkerLevel(s) ==
    LET n == LeadingHashes(s)
    IN  IF 1 <= n /\ n <= 4 /\ Len(s) > n /\ s[n + 1] = " " THEN n ELSE 0

\* C17: when the line just processed starts with n "#" (1 <= n <= 4) and a
\* space, it was drawn as a heading of level n with the text after the
\* markers, whatever else the line holds and whatever line follows it.
C17_HeadingClassification ==
    (last.kind \in LineBlockKinds /\ MarkerLevel(LineAt(last.at)) > 0) =>
        LET s == LineAt(last.at)
            n == MarkerLevel(s)
        IN  /\ last.kind \in {"heading", "heading1"}
            /\ \E k \in 1..Len(canvas) :
                  /\ canvas[k].kind = "heading"
                  /\ canvas[k].src = Line(last.at)
                  /\ canvas[k].level = n
                  /\ canvas[k].text = Escape(SubSeq(s, n + 2, Len(s)))

\* The four steps in their order: code markers, links, escaping, bold.
FourSteps(t) == BoldConvert(Escape(StripLinks(StripCode(t))))

\* The four steps on every cell of a row.
FourStepsRow(row) == [k \in 1..Len(row) |-> FourSteps(row[k])]

\* C18: the text of every paragraph, bullet item, numbered item, heading and
\* table cell on the canvas is the text of its block (the line without its
\* bullet, number or heading markers; the cell) taken through the four steps.
C18_SameFourSteps ==
    \A k \in 1..Len(canvas) :
        LET p == canvas[k]
            j == p.src[2]
            s == LineAt(j)
        IN  /\ p.kind = "paragraph" => p.text = FourSteps(s)
            /\ p.kind = "bullet" => p.text = FourSteps(SubSeq(s, 3, Len(s)))
            /\ p.kind = "item" =>
                  p.text = FourSteps(SubSeq(s, LeadingDigits(s) + 3, Len(s)))
            /\ p.kind = "heading" =>
                  p.text = FourSteps(SubSeq(s, p.level + 2, Len(s)))
            /\ p.kind = "table" =>
                  /\ p.cells[1] = FourStepsRow(Cells(s))
                  /\ \A r \in 2..Len(p.cells) :
                        (\A q \in 2..r : Cells(LineAt(j + q)) # <<>>)
                        => p.cells[r] = FourStepsRow(Cells(LineAt(j + r)))

\* The markup the layout engine reads in a text: the two emphasis tags and
\* the three entities.
OpenTag == <<"<", "b", ">">>
CloseTag == <<"<", "/", "b", ">">>
Entities ==
    { <<"&", "a", "m", "p", ";">>, <<"&", "l", "t", ";">>, <<"&", "g", "t", ";">> }

\* The character an entity stands for.
EntityChar(e) == IF e[2] = "a" THEN "&" ELSE IF e[2] = "l" THEN "<" ELSE ">"

\* The text the reader sees: the entities of s replaced by their characters.
RECURSIVE Unescape(_)
Unescape(s) ==
    IF s = <<>> THEN <<>>
    ELSE IF \E e \in Entities : StartsWith(s, e)
    THEN LET e == CHOOSE e \in Entities : StartsWith(s, e)
         IN  <<EntityChar(e)>> \o Unescape(SubSeq(s, Len(e) + 1, Len(s)))
    ELSE <<Head(s)>> \o Unescape(Tail(s))

\* s as the layout engine reads it: TRUE when every "<" opens an emphasis
\* tag, the tags come in pairs (open, close), every ">" closes a tag and
\* every "&" starts an entity.  inside: an emphasis tag is open.
RECURSIVE OnlyEmphasisTags(_, _)
OnlyEmphasisTags(s, inside) ==
    IF s = <<>> THEN ~inside
    ELSE IF StartsWith(s, OpenTag)
    THEN ~inside /\ OnlyEmphasisTags(SubSeq(s, Len(OpenTag) + 1, Len(s)), TRUE)
    ELSE IF StartsWith(s, CloseTag)
    THEN inside /\ OnlyEmphasisTags(SubSeq(s, Len(CloseTag) + 1, Len(s)), FALSE)
    ELSE IF \E e \in Entities : StartsWith(s, e)
    THEN OnlyEmphasisTags(SubSeq(s, 2, Len(s)), inside)
    ELSE Head(s) \notin {"<", ">", "&"} /\ OnlyEmphasisTags(Tail(s), inside)

\* The spans of s as the layout engine reads it, in order: the text between
\* the tags, unescaped, and whether it is emphasised.
Span(emph, text) == [emph |-> emph, text |-> Unescape(text)]

RECURSIVE SpansFrom(_, _, _)
SpansFrom(s, emph, cur) ==
    LET flushed == IF cur = <<>> THEN <<>> ELSE <<Span(emph, cur)>>
    IN  IF s = <<>> THEN flushed
        ELSE IF StartsWith(s, OpenTag)
        THEN flushed \o SpansFrom(SubSeq(s, Len(OpenTag) + 1, Len(s)), TRUE, <<>>)
        ELSE IF StartsWith(s, CloseTag)
        THEN flushed \o SpansFrom(SubSeq(s, Len(CloseTag) + 1, Len(s)), FALSE, <<>>)
        ELSE SpansFrom(Tail(s), emph, Append(cur, Head(s)))

Spans(s) == SpansFrom(s, FALSE, <<>>)

\* The spans put back as Markdown: the emphasised ones between "**".
RECURSIVE Rewrapped(_)
Rewrapped(spans) ==
    IF spans = <<>> THEN <<>>
    ELSE (IF Head(spans).emph
          THEN <<"*", "*">> \o Head(spans).text \o <<"*", "*">>
          ELSE Head(spans).text) \o Rewrapped(Tail(spans))

\* The texts handed to the layout engine for the primitive p, each with the
\* text of the block it was made from (a paragraph after its code and link
\* markup was removed, a heading, bullet or numbered item after its markers,
\* the cells of the header line and of the first data line of a table).
Handed(p) ==
    LET s == LineAt(p.src[2])
    IN  CASE p.kind = "paragraph" ->
               {[from |-> StripLinks(StripCode(s)), text |-> p.text, kind |-> p.kind]}
          [] p.kind = "bullet" ->
               {[from |-> SubSeq(s, 3, Len(s)), text |-> p.text, kind |-> p.kind]}
          [] p.kind = "item" ->
               {[from |-> SubSeq(s, LeadingDigits(s) + 3, Len(s)), text |-> p.text,
                 kind |-> p.kind]}
          [] p.kind = "heading" ->
               {[from |-> SubSeq(s, p.level + 2, Len(s)), text |-> p.text,
                 kind |-> p.kind]}
          [] p.kind = "table" ->
               {[from |-> Cells(s)[k], text |-> p.cells[1][k], kind |-> "cell"] :
                   k \in 1..Len(p.cells[1])}
                 \cup
               {[from |-> Cells(LineAt(p.src[2] + 2))[k], text |-> p.cells[2][k],
                 kind |-> "cell"] :
                   k \in {c \in 1..Len(p.cells[2]) :
                             Cells(LineAt(p.src[2] + 2)) # <<>>}}
          [] OTHER -> {}

AllHanded == UNION {Handed(canvas[k]) : k \in 1..Len(canvas)}

\* C19: in every text handed to the layout engine the only tags are paired
\* emphasis tags and every "&", "<" and ">" of the block's text is an
\* entity; its spans, the emphasised ones put back between "**", give the
\* block's text; the text "**A** and **B**" gives emphasised "A", plain
\* " and ", emphasised "B", and "**<b>**" gives one emphasised span "<b>".
C19_EscapingPrecedesEmphasis ==
    \A h \in AllHanded :
        /\ OnlyEmphasisTags(h.text, FALSE)
        /\ Rewrapped(Spans(h.text)) = h.from
        /\ h.from = BoldPair =>
              Spans(h.text) = << [emph |-> TRUE, text |-> <<"A">>],
                                 [emph |-> FALSE, text |-> <<" ", "a", "n", "d", " ">>],
                                 [emph |-> TRUE, text |-> <<"B">>] >>
        /\ h.from = BoldTag =>
              Spans(h.text) = << [emph |-> TRUE, text |-> <<"<", "b", ">">>] >>

\* The input is paragraph text only: every line is blank or was drawn as a
\* paragraph, and nothing else is on the canvas.
OnlyParagraphText ==
    /\ \A k \in 1..Len(canvas) : canvas[k].kind = "paragraph"
    /\ \A j \in 0..(Len(lines) - 1) :
          \/ LineAt(j) = <<>>
          \/ \E k \in 1..Len(canvas) : canvas[k].src = Line(j)

\* The wrapped heights of the paragraphs on the canvas, added up.
TotalWrappedHeight ==
    SumTo([k \in 1..Len(canvas) |-> canvas[k].top - canvas[k].bottom], Len(canvas))

\* The pages of the document that save() writes: the flushed ones and the
\* current one.
PageCount == pages + 1

\* C20: a returned document made of paragraph text only, whose paragraphs
\* are together higher than the space between the top and bottom margins of
\* one page, has more than one page.
C20_LongTextPaginates ==
    (pc = "done" /\ OnlyParagraphText /\ TotalWrappedHeight > UsableHeight)
    => PageCount > 1

\* C20 witness: one paragraph higher than a page was returned on two pages.
C20_Witness ==
    /\ pc = "done"
    /\ Len(canvas) = 1
    /\ OnlyParagraphText
    /\ TotalWrappedHeight > UsableHeight
    /\ PageCount = 2

\* C21: the documents returned by calls with the same arguments in the same
\* environment are the same, byte for byte: nothing in them comes from the
\* wall clock or from an earlier call.
C21_SameInputSameBytes ==
    \A a \in 1..Len(returned), b \in 1..Len(returned) : returned[a] = returned[b]

\* The primitives a step has added on page q.
AddedOn(q) == { k \in (Len(canvas) + 1)..Len(canvas') : canvas'[k].page = q }

\* The first of a set of positions.
First(S) == CHOOSE k \in S : \A m \in S : k <= m

\* The primitive a block is placed by, and how far above the cursor its upper
\* edge is (lines 549, 588, 619: a Paragraph is drawn 8 or 10 points above
\* its lower edge's distance from the cursor; the others start at the cursor).
Bodies ==
    {"rule", "bullet", "item", "paragraph", "heading", "table", "image",
     "gallery_rule"}
Rise(kind) ==
    CASE kind = "bullet" -> P(8)
      [] kind \in {"item", "paragraph"} -> P(10)
      [] OTHER -> 0

BodiesAddedOn(q) == { k \in AddedOn(q) : canvas'[k].kind \in Bodies }

\* A step of the line loop or of the gallery.
BlockStep == pc \in {"loop", "gallery"} /\ pc' # "raised"

\* C22: a block step never lowers the number of emitted pages; when it emits
\* none it leaves the cursor equal or lower; when it emits pages, the cursor
\* was set to the page top at each break: the first block drawn on each page
\* begun by the step is placed from the page top, and the cursor is left at
\* the page top when nothing is drawn after the last break, below it
\* otherwise.
C22_CursorMonotone ==
    [][BlockStep =>
         /\ pages' >= pages
         /\ pages' = pages => y_position' <= y_position
         /\ \A q \in (pages + 1)..pages' :
              BodiesAddedOn(q) # {} =>
                  LET body == canvas'[First(BodiesAddedOn(q))]
                  IN  body.top - Rise(body.kind) = PageTop
         /\ pages' > pages =>
              IF AddedOn(pages') = {}
              THEN y_position' = PageTop
              ELSE y_position' < PageTop]_vars

\* A block step has emitted a page and drawn its block from the page top.
C22_Witness ==
    /\ pc \in {"loop", "gallery", "save"}
    /\ pages >= 1
    /\ last.pages < pages
    /\ \E k \in 1..Len(canvas) :
         /\ canvas[k].page = pages
         /\ canvas[k].kind \in Bodies
         /\ canvas[k].top - Rise(canvas[k].kind) = PageTop
    /\ y_position < PageTop

\* C23: every iteration of the line loop moves i forward by at least one
\* line and never past the last one, each block starts at the first line no
\* block has consumed, and the loop is left only when every line has been
\* consumed.
C23_LoopProgress ==
    [][pc = "loop" =>
         /\ i' >= i
         /\ i' <= Len(lines)
         /\ InLoop => /\ i' >= i + 1
                      /\ last'.at = i
         /\ pc' # "loop" => i' = Len(lines)]_vars

\* The failure of an attempt on an image buffer was printed.
FailurePrinted(buf) == \E k \in 1..Len(printed) : printed[k] = buf

\* C24: in the returned document every supplied image is drawn exactly once,
\* unless an attempt on it failed and it is drawn at most once.
C24_EverySuppliedImageDrawn ==
    pc = "done" =>
        \A buf \in Supplied :
            /\ Cardinality(ImageDraws(buf)) <= 1
            /\ ImageDraws(buf) = {} => FailurePrinted(buf)

\* The pages emitted by a page break, and those among them with nothing on
\* them.
EmittedPages == 0..(pages - 1)
BlankPages == { q \in EmittedPages : \A k \in 1..Len(canvas) : canvas[k].page # q }

\* Every block drawn is no higher than the usable height of a page.
BlocksFitOnAPage ==
    \A k \in 1..Len(canvas) : canvas[k].top - canvas[k].bottom <= UsableHeight

\* C25: when every block fits on a page, every page emitted by a page break
\* has a primitive on it.
C25_NoBlankPage == BlocksFitOnAPage => BlankPages = {}

=============
